---- MODULE Spec2Model ----
(***************************************************************************)
(* A model of django-pagetree: pagetree/models.py (Hierarchy, Section,     *)
(* PageBlock, UserLocation, UserPageVisit) and pagetree/generic/models.py  *)
(* (BasePageBlock).                                                        *)
(*                                                                         *)
(* The database is the state.  Strings are sequences of one-character      *)
(* strings, so that slicing, startswith, split and "%d" formatting are     *)
(* computed and not assumed.  Every model method that writes is an         *)
(* operator from a database record to a result record                      *)
(* [db, exc, sec, str, flag]; an action commits the result's db and keeps  *)
(* what the call returned (or raised) in ret.  Django runs in autocommit   *)
(* mode, so the writes made before an exception stay.                      *)
(***************************************************************************)
EXTENDS Integers, Sequences, FiniteSets, Bags, TLC

VARIABLES
    hierarchies,    \* table Hierarchy: sequence of rows, id = index
    sections,       \* table Section (MP_Node): sequence of rows, id = index
    pageblocks,     \* table PageBlock: set of rows, each with its id
    pageblock_seq,  \* last id the PageBlock table's AutoField handed out
    userlocations,  \* table UserLocation: bag of rows (the row ids are not kept)
    userpagevisits, \* table UserPageVisit: sequence of rows, id = index
    inflight,       \* the Section.user_pagevisit calls of the concurrent requests:
                    \* where each one is, its arguments and its local upv
    submitted,      \* the block.submit(user, data) calls of the last Section.submit
    ret             \* what the last call was, and what it returned or raised

vars == <<hierarchies, sections, pageblocks, pageblock_seq, userlocations,
          userpagevisits, inflight, submitted, ret>>

(***************************************************************************)
(* Bounds of the model.                                                    *)
(***************************************************************************)
MaxHierarchies == 2
MaxSections == 4
MaxOrdSections == 2
MaxOrdBlocks == 3
MaxLiveBlocks == 2
MaxPageBlockId == 10
MaxLocHierarchies == 1
MaxPathSections == 4
MaxUrlHierarchies == 2
MaxUrlSections == 4
MaxDictHierarchies == 3
MaxDictSections == 4
MaxDictBlocks == 2
MaxVisitSections == 1
MaxRequests == 2

(***************************************************************************)
(* Strings.                                                                *)
(***************************************************************************)
Empty == <<>>
Slash == <<"/">>
None_ == <<"<None>">>
S_Root == <<"R", "o", "o", "t">>

\* s[i:] of Python, i >= 0
SliceFrom(s, i) == IF i >= Len(s) THEN <<>> ELSE SubSeq(s, i + 1, Len(s))

\* s[:-1] of Python
DropLast(s) == IF Len(s) = 0 THEN <<>> ELSE SubSeq(s, 1, Len(s) - 1)

\* str.startswith
startswith(s, prefix) ==
    /\ Len(prefix) <= Len(s)
    /\ \A i \in 1..Len(prefix) : s[i] = prefix[i]

\* str.endswith
endswith(s, suffix) ==
    /\ Len(suffix) <= Len(s)
    /\ \A i \in 1..Len(suffix) : s[Len(s) - Len(suffix) + i] = suffix[i]

\* str.split("/"): the pieces between the slashes; "".split("/") is [""]
RECURSIVE SplitFrom(_, _, _)
SplitFrom(s, i, cur) ==
    IF i > Len(s) THEN <<cur>>
    ELSE IF s[i] = "/" THEN <<cur>> \o SplitFrom(s, i + 1, <<>>)
    ELSE SplitFrom(s, i + 1, Append(cur, s[i]))

split(s) == SplitFrom(s, 1, <<>>)

\* "%d" % n for n >= 0
Digit(d) == <<"0", "1", "2", "3", "4", "5", "6", "7", "8", "9">>[d + 1]

RECURSIVE FormatD(_)
FormatD(n) == IF n < 10 THEN <<Digit(n)>> ELSE FormatD(n \div 10) \o <<Digit(n % 10)>>

(***************************************************************************)
(* django.template.defaultfilters.slugify over the model's alphabet:       *)
(* drop what is not a word character, white space or hyphen; strip; lower; *)
(* turn each run of hyphens and white space into one hyphen.               *)
(***************************************************************************)
IsSpaceOrHyphen(c) == c \in {" ", "-"}
IsWordChar(c) == c \in {"R", "A", "B", "a", "b", "c", "o", "t", "r", "x", "_",
                        "0", "1", "2"}

Lower(c) == CASE c = "R" -> "r" [] c = "A" -> "a" [] c = "B" -> "b" [] OTHER -> c

RECURSIVE KeepSlugChars(_)
KeepSlugChars(s) ==
    IF s = <<>> THEN <<>>
    ELSE IF IsWordChar(Head(s)) \/ IsSpaceOrHyphen(Head(s))
         THEN <<Head(s)>> \o KeepSlugChars(Tail(s))
         ELSE KeepSlugChars(Tail(s))

RECURSIVE StripLeft(_)
StripLeft(s) == IF s # <<>> /\ Head(s) = " " THEN StripLeft(Tail(s)) ELSE s

RECURSIVE StripRight(_)
StripRight(s) == IF s # <<>> /\ s[Len(s)] = " " THEN StripRight(DropLast(s)) ELSE s

RECURSIVE Hyphenate(_, _)
Hyphenate(s, inRun) ==
    IF s = <<>> THEN <<>>
    ELSE IF IsSpaceOrHyphen(Head(s))
         THEN (IF inRun THEN <<>> ELSE <<"-">>) \o Hyphenate(Tail(s), TRUE)
         ELSE <<Lower(Head(s))>> \o Hyphenate(Tail(s), FALSE)

slugify(label) == Hyphenate(StripRight(StripLeft(KeepSlugChars(label))), FALSE)

(***************************************************************************)
(* Python dictionaries are functions; d.get(k, default).                   *)
(***************************************************************************)
DictGet(d, k, default) == IF k \in DOMAIN d THEN d[k] ELSE default

(***************************************************************************)
(* The database as one value, and the result of a call.                    *)
(***************************************************************************)
DB == [hierarchies |-> hierarchies, sections |-> sections,
       pageblocks |-> pageblocks, pageblock_seq |-> pageblock_seq,
       userlocations |-> userlocations, userpagevisits |-> userpagevisits]

EmptyDB == [hierarchies |-> <<>>, sections |-> <<>>, pageblocks |-> {},
            pageblock_seq |-> 0, userlocations |-> EmptyBag, userpagevisits |-> <<>>]

\* a call that returned normally; sec = 0 is None
Result(db) == [db |-> db, exc |-> "", sec |-> 0, hier |-> 0, str |-> <<>>,
               flag |-> FALSE, val |-> <<>>]

Raise(db, exc) == [Result(db) EXCEPT !.exc = exc]

\* ret: the call (op and its arguments self, user, on, arg, data) and its outcome (what it
\* raised, or the section, hierarchy, string or boolean it returned)
NoCall == [op |-> "", self |-> 0, user |-> 0, on |-> 0, arg |-> <<>>, data |-> <<>>,
           exc |-> "", sec |-> 0, hier |-> 0, str |-> <<>>, flag |-> FALSE]

Called(op, self, r) ==
    [NoCall EXCEPT !.op = op, !.self = self, !.exc = r.exc, !.sec = r.sec,
                   !.hier = r.hier, !.str = r.str, !.flag = r.flag]

\* the database is what the call (or the statement) left
Tables(r) ==
    /\ hierarchies' = r.db.hierarchies
    /\ sections' = r.db.sections
    /\ pageblocks' = r.db.pageblocks
    /\ pageblock_seq' = r.db.pageblock_seq
    /\ userlocations' = r.db.userlocations
    /\ userpagevisits' = r.db.userpagevisits

\* the call ran in one request from start to end; the user_pagevisit calls in flight in
\* other requests stay where they are
Commit(r) == Tables(r) /\ UNCHANGED inflight

(***************************************************************************)
(* treebeard's MP_Node, as Section uses it.  Siblings are kept in path     *)
(* order; add_root and add_child put the new node last, and nothing here   *)
(* moves a node, so path order among siblings is id order.                 *)
(***************************************************************************)
SectionIds(db) == 1..Len(db.sections)

is_root(db, s) == db.sections[s].parent = 0

get_parent(db, s) == db.sections[s].parent

\* the children of s, as a set; get_children orders them by id
ChildSet(db, s) == {c \in SectionIds(db) : db.sections[c].parent = s}

RECURSIVE SortedSeq(_)
SortedSeq(S) ==
    IF S = {} THEN <<>>
    ELSE LET m == CHOOSE x \in S : \A y \in S : x <= y
         IN <<m>> \o SortedSeq(S \ {m})

get_children(db, s) == SortedSeq(ChildSet(db, s))

is_leaf(db, s) == ChildSet(db, s) = {}

\* MP_Node.get_root: the root of the tree the node is in
RECURSIVE Section_get_root(_, _)
Section_get_root(db, s) ==
    IF is_root(db, s) THEN s ELSE Section_get_root(db, get_parent(db, s))

\* MP_Node.add_root(**kwargs): a new tree, after the existing ones
add_root(db, label, slug, hierarchy) ==
    LET row == [label |-> label, slug |-> slug, hierarchy |-> hierarchy, parent |-> 0]
        db2 == [db EXCEPT !.sections = Append(db.sections, row)]
    IN [Result(db2) EXCEPT !.sec = Len(db2.sections)]

\* MP_Node.add_child(**kwargs): a new last child of s
add_child(db, s, label, slug, hierarchy) ==
    LET row == [label |-> label, slug |-> slug, hierarchy |-> hierarchy, parent |-> s]
        db2 == [db EXCEPT !.sections = Append(db.sections, row)]
    IN [Result(db2) EXCEPT !.sec = Len(db2.sections)]

\* the nodes of the tree under s, depth first (s first)
RECURSIVE Preorder(_, _)
RECURSIVE PreorderAll(_, _)
Preorder(db, s) == <<s>> \o PreorderAll(db, get_children(db, s))
PreorderAll(db, ss) ==
    IF ss = <<>> THEN <<>> ELSE Preorder(db, Head(ss)) \o PreorderAll(db, Tail(ss))

\* MP_Node.get_annotated_list is a classmethod, get_annotated_list(cls, parent=None):
\* called on an instance it still gets parent=None and lists cls.get_tree(None), every
\* node of the table in path order, that is every tree, one after the other.
get_annotated_list(db) ==
    PreorderAll(db, SortedSeq({s \in SectionIds(db) : is_root(db, s)}))

(***************************************************************************)
(* The pageblock classes of the installation.  They are plugins: a class   *)
(* deriving from BasePageBlock inherits its defaults and may override      *)
(* them; a content object of any other class has only what it defines.     *)
(*   TextBlock  derives, overrides nothing                                 *)
(*   Quiz       derives, needs_submit() is True, own as_dict and           *)
(*              create_from_dict                                           *)
(*   Survey     derives, needs_submit() is True,                           *)
(*              redirect_to_self_on_submit() is False                      *)
(*   Form       does not derive; defines needs_submit() (True) and submit  *)
(*   Legacy     does not derive; defines render only                       *)
(***************************************************************************)
BlockClasses == {"TextBlock", "Quiz", "Survey", "Form", "Legacy"}

DerivesBasePageBlock(c) == c \in {"TextBlock", "Quiz", "Survey"}

\* settings.PAGEBLOCKS
PAGEBLOCKS == <<"TextBlock", "Quiz", "Survey", "Form", "Legacy">>

display_name(c) == <<c>>

\* hasattr(block, 'needs_submit')
has_needs_submit(c) == DerivesBasePageBlock(c) \/ c = "Form"

\* BasePageBlock.needs_submit returns False; Quiz, Survey and Form return True
needs_submit(c) == IF c \in {"Quiz", "Survey", "Form"} THEN TRUE ELSE FALSE

\* hasattr(block, 'redirect_to_self_on_submit')
has_redirect_to_self_on_submit(c) == DerivesBasePageBlock(c)

\* BasePageBlock.redirect_to_self_on_submit returns True; Survey returns False
redirect_to_self_on_submit(c) == IF c = "Survey" THEN FALSE ELSE TRUE

\* hasattr(content_object, 'as_dict'), and what it gives
has_as_dict(c) == c = "Quiz"
Block_as_dict(c) == [description |-> <<"q">>]

\* the model fields a class accepts in objects.create(**kwargs)
ModelFields(c) == IF c = "Quiz" THEN {"id", "description"} ELSE {"id", "body"}

\* hasattr(pb_class, 'create_from_dict')
has_create_from_dict(c) == DerivesBasePageBlock(c)

\* BasePageBlock.create_from_dict: cls.objects.create(**d); a keyword that is no
\* field of the model is a TypeError.  Quiz overrides it and keeps its own fields.
create_from_dict(c, d) ==
    IF c = "Quiz" THEN ""
    ELSE IF DOMAIN d \subseteq ModelFields(c) THEN "" ELSE "TypeError"

(***************************************************************************)
(* Hierarchy.                                                              *)
(***************************************************************************)
HierarchyIds(db) == 1..Len(db.hierarchies)

\* Hierarchy.objects.create(name=, base_url=)
Hierarchy_create(db, name, base_url) ==
    LET db2 == [db EXCEPT !.hierarchies =
                    Append(db.hierarchies, [name |-> name, base_url |-> base_url])]
    IN [Result(db2) EXCEPT !.hier = Len(db2.hierarchies)]

\* Hierarchy.get_hierarchy(name): get_or_create by name, base_url "/" when created
get_hierarchy(db, name) ==
    LET found == {h \in HierarchyIds(db) : db.hierarchies[h].name = name}
    IN IF found = {} THEN Hierarchy_create(db, name, Slash)
       ELSE IF Cardinality(found) > 1 THEN Raise(db, "MultipleObjectsReturned")
       ELSE [Result(db) EXCEPT !.hier = CHOOSE h \in found : TRUE]

Hierarchy_get_absolute_url(db, h) == db.hierarchies[h].base_url

\* Hierarchy.get_root: Section.objects.get(hierarchy=self, label="Root").get_root(),
\* a new root when get() finds no row; get() raises MultipleObjectsReturned when it
\* finds more than one, and that is not caught.
get_root(db, h) ==
    LET found == {s \in SectionIds(db) :
                    db.sections[s].hierarchy = h /\ db.sections[s].label = S_Root}
    IN IF found = {} THEN add_root(db, S_Root, Empty, h)
       ELSE IF Cardinality(found) > 1 THEN Raise(db, "MultipleObjectsReturned")
       ELSE [Result(db) EXCEPT !.sec = Section_get_root(db, CHOOSE s \in found : TRUE)]

\* the dict the loop of find_section_from_path fills: slugs[c.slug] = c for each
\* child in order, a later child replacing an earlier one of the same slug
RECURSIVE SlugDict(_, _, _)
SlugDict(db, cs, slugs) ==
    IF cs = <<>> THEN slugs
    ELSE SlugDict(db, Tail(cs), (db.sections[Head(cs)].slug :> Head(cs)) @@ slugs)

\* the for loop of find_section_from_path; 0 is None
RECURSIVE FollowSlugs(_, _, _)
FollowSlugs(db, current, path_slugs) ==
    IF path_slugs = <<>> THEN current
    ELSE LET slugs == SlugDict(db, get_children(db, current), <<>>)
         IN IF Head(path_slugs) \in DOMAIN slugs
            THEN FollowSlugs(db, slugs[Head(path_slugs)], Tail(path_slugs))
            ELSE 0

find_section_from_path(db, h, path0) ==
    LET path == IF endswith(path0, Slash) THEN DropLast(path0) ELSE path0
        root == get_root(db, h)
    IN IF root.exc # "" THEN root
       ELSE IF path = Empty THEN root
       ELSE [root EXCEPT !.sec = FollowSlugs(root.db, root.sec, split(path))]

get_section_from_path(db, h, path) ==
    LET s == find_section_from_path(db, h, path)
    IN IF s.exc = "" /\ s.sec = 0 THEN Raise(s.db, "Http404") ELSE s

(***************************************************************************)
(* Section.                                                                *)
(***************************************************************************)
\* index of s in a list, from 0; -1 when it is not there
IndexOf(list, s) ==
    IF \E i \in 1..Len(list) : list[i] = s
    THEN (CHOOSE i \in 1..Len(list) : list[i] = s) - 1
    ELSE -1

get_previous(db, s) ==
    LET depth_first_traversal == get_annotated_list(db)
        i == IndexOf(depth_first_traversal, s)
    IN IF i = -1 THEN 0
       ELSE IF i > 1 /\ ~is_root(db, depth_first_traversal[(i - 1) + 1])
            THEN depth_first_traversal[(i - 1) + 1]
            ELSE 0

get_next(db, s) ==
    LET depth_first_traversal == get_annotated_list(db)
        i == IndexOf(depth_first_traversal, s)
    IN IF i = -1 THEN 0
       ELSE IF i < Len(depth_first_traversal) - 1
            THEN depth_first_traversal[(i + 1) + 1]
            ELSE 0

append_child(db, s, label, slug0) ==
    LET slug == IF slug0 = Empty THEN slugify(label) ELSE slug0
    IN add_child(db, s, label, slug, db.sections[s].hierarchy)

\* get_absolute_url without the "/" after each slug
RECURSIVE get_absolute_url_unslashed(_, _)
get_absolute_url_unslashed(db, s) ==
    IF is_root(db, s) THEN Hierarchy_get_absolute_url(db, db.sections[s].hierarchy)
    ELSE get_absolute_url_unslashed(db, get_parent(db, s)) \o db.sections[s].slug

RECURSIVE get_absolute_url(_, _)
get_absolute_url(db, s) ==
    IF is_root(db, s) THEN Hierarchy_get_absolute_url(db, db.sections[s].hierarchy)
    ELSE get_absolute_url(db, get_parent(db, s)) \o db.sections[s].slug \o Slash

get_path(db, s) == SliceFrom(get_absolute_url(db, s), 1)

(***************************************************************************)
(* PageBlock rows of a section.  Meta.ordering is (section, ordinality);   *)
(* rows of equal ordinality come in id order here (no operation of the     *)
(* model produces equal ordinalities in one section).                      *)
(***************************************************************************)
PageblockSet(db, s) == {p \in db.pageblocks : p.section = s}

RECURSIVE OrderedBlocks(_)
OrderedBlocks(P) ==
    IF P = {} THEN <<>>
    ELSE LET m == CHOOSE p \in P : \A q \in P :
                     \/ p.ordinality < q.ordinality
                     \/ (p.ordinality = q.ordinality /\ p.id <= q.id)
         IN <<m>> \o OrderedBlocks(P \ {m})

\* self.pageblock_set.all()
pageblock_set_all(db, s) == OrderedBlocks(PageblockSet(db, s))

\* the body of Section.append_pageblock
append_pageblock_body(db, s, label, content_object) ==
    LET neword == Cardinality(PageblockSet(db, s)) + 1
        row == [id |-> db.pageblock_seq + 1, section |-> s, ordinality |-> neword,
                label |-> label, css_extra |-> None_, block |-> content_object]
    IN Result([db EXCEPT !.pageblocks = @ \cup {row},
                         !.pageblock_seq = @ + 1])

\* def append_pageblock(self, label, content_object)
append_pageblock_params == {"label", "content_object"}

\* a call of Section.append_pageblock by keyword: Python binds the keywords to the
\* parameters before the body runs, and a keyword that names no parameter, or a
\* parameter left without a value, is a TypeError
append_pageblock(db, s, kwargs) ==
    IF DOMAIN kwargs # append_pageblock_params THEN Raise(db, "TypeError")
    ELSE append_pageblock_body(db, s, kwargs.label, kwargs.content_object)

\* the loop of Section.renumber_pageblocks over the blocks in order
RECURSIVE Renumber(_, _)
Renumber(blocks, i) ==
    IF blocks = <<>> THEN {}
    ELSE {[Head(blocks) EXCEPT !.ordinality = i]} \cup Renumber(Tail(blocks), i + 1)

renumber_pageblocks(db, s) ==
    [db EXCEPT !.pageblocks =
        (db.pageblocks \ PageblockSet(db, s)) \cup Renumber(pageblock_set_all(db, s), 1)]

\* PageBlock.delete without the renumbering
PageBlock_delete_only(db, p) == Result([db EXCEPT !.pageblocks = @ \ {p}])

\* PageBlock.delete: the row goes, then its section renumbers
PageBlock_delete(db, p) ==
    LET section == p.section
        db2 == [db EXCEPT !.pageblocks = @ \ {p}]
    IN Result(renumber_pageblocks(db2, section))

(***************************************************************************)
(* Section.submit.  request_data is a QueryDict: each key has the list of  *)
(* its values (getlist), and request_data[k] is the last of them.          *)
(***************************************************************************)
S_pageblock == <<"p", "a", "g", "e", "b", "l", "o", "c", "k">>

\* "pageblock-%d" % p.id, without the closing hyphen
pageblock_prefix_open(id) == S_pageblock \o <<"-">> \o FormatD(id)

\* "pageblock-%d-" % p.id
pageblock_prefix(id) == S_pageblock \o <<"-">> \o FormatD(id) \o <<"-">>

\* the for loop over request_data.keys() that fills data
RECURSIVE BlockData(_, _, _, _)
BlockData(request_data, keys, prefix, data) ==
    IF keys = {} THEN data
    ELSE LET k == CHOOSE x \in keys : TRUE
             v == request_data[k]
             item == IF Len(v) = 1 THEN v[Len(v)] ELSE v
         IN BlockData(request_data, keys \ {k}, prefix,
                      IF startswith(k, prefix)
                      THEN (SliceFrom(k, Len(prefix)) :> item) @@ data
                      ELSE data)

\* proceed as the conjunction of every submitted block's answer
Proceed_all(proceed, block) ==
    IF has_redirect_to_self_on_submit(block)
    THEN proceed /\ ~redirect_to_self_on_submit(block)
    ELSE proceed

\* proceed after a submitted block: the block's answer when it defines
\* redirect_to_self_on_submit, whatever proceed was
Proceed(proceed, block) ==
    IF has_redirect_to_self_on_submit(block)
    THEN ~redirect_to_self_on_submit(block)
    ELSE proceed

\* the for loop over self.pageblock_set.all(): [proceed, calls]
RECURSIVE SubmitLoop(_, _, _, _)
SubmitLoop(blocks, request_data, user, acc) ==
    IF blocks = <<>> THEN acc
    ELSE LET p == Head(blocks)
             data == BlockData(request_data, DOMAIN request_data,
                               pageblock_prefix(p.id), <<>>)
             call == [pb |-> p.id, user |-> user, data |-> data]
             next ==
                IF has_needs_submit(p.block) /\ needs_submit(p.block)
                THEN [proceed |-> Proceed(acc.proceed, p.block),
                      calls |-> Append(acc.calls, call)]
                ELSE acc
         IN SubmitLoop(Tail(blocks), request_data, user, next)

submit(db, s, request_data, user) ==
    SubmitLoop(pageblock_set_all(db, s), request_data, user,
               [proceed |-> TRUE, calls |-> <<>>])

(***************************************************************************)
(* Export to and import from nested dictionaries.                          *)
(***************************************************************************)
PageBlock_as_dict(p) ==
    LET d == IF has_as_dict(p.block) THEN Block_as_dict(p.block) ELSE <<>>
    IN ("block_type" :> display_name(p.block)) @@ ("css_extra" :> p.css_extra)
          @@ ("label" :> p.label) @@ d

RECURSIVE Section_as_dict(_, _)
Section_as_dict(db, s) ==
    LET blocks == pageblock_set_all(db, s)
        children == get_children(db, s)
    IN [label |-> db.sections[s].label,
        slug |-> db.sections[s].slug,
        pageblocks |-> [i \in 1..Len(blocks) |-> PageBlock_as_dict(blocks[i])],
        children |-> [i \in 1..Len(children) |-> Section_as_dict(db, children[i])]]

\* Hierarchy.as_dict; get_root may create the root, or raise
Hierarchy_as_dict(db, h) ==
    LET root == get_root(db, h)
    IN IF root.exc # "" THEN root
       ELSE [Result(root.db) EXCEPT !.val =
                [name |-> db.hierarchies[h].name,
                 base_url |-> db.hierarchies[h].base_url,
                 sections |-> <<Section_as_dict(root.db, root.sec)>>]]

\* The loops below carry the result r of the statements run so far: once one of them
\* raised, nothing more runs and r is the outcome.

\* block = pb_class.create_from_dict(d); self.append_pageblock(label=, css_extra=,
\* content_object=block)
CreateAndAppend(db, s, d, pb_class) ==
    IF create_from_dict(pb_class, d) # ""
    THEN Raise(db, create_from_dict(pb_class, d))
    ELSE append_pageblock(db, s, [label |-> DictGet(d, "label", Empty),
                                  css_extra |-> DictGet(d, "css_extra", Empty),
                                  content_object |-> pb_class])

\* the loop of add_pageblock_from_dict over self.available_pageblocks()
RECURSIVE AddPageblockLoop(_, _, _, _)
AddPageblockLoop(r, s, d, classes) ==
    IF r.exc # "" THEN r
    ELSE IF classes = <<>> THEN Result(r.db)
    ELSE AddPageblockLoop(
            IF /\ display_name(Head(classes)) = DictGet(d, "block_type", Empty)
               /\ has_create_from_dict(Head(classes))
            THEN CreateAndAppend(r.db, s, d, Head(classes))
            ELSE Result(r.db),
            s, d, Tail(classes))

add_pageblock_from_dict(db, s, d) == AddPageblockLoop(Result(db), s, d, PAGEBLOCKS)

\* for pb in d.get('pageblocks', []): s.add_pageblock_from_dict(pb)
RECURSIVE AddPageblocks(_, _, _)
AddPageblocks(r, s, ds) ==
    IF r.exc # "" THEN r
    ELSE IF ds = <<>> THEN Result(r.db)
    ELSE AddPageblocks(add_pageblock_from_dict(r.db, s, Head(ds)), s, Tail(ds))

RECURSIVE add_child_section_from_dict(_, _, _)
RECURSIVE AddChildren(_, _, _)
RECURSIVE ChildFromDict(_, _)
\* the two loops of add_child_section_from_dict, on the section s.sec just appended
ChildFromDict(s, d) ==
    IF s.exc # "" THEN s
    ELSE AddChildren(AddPageblocks(Result(s.db), s.sec, DictGet(d, "pageblocks", <<>>)),
                     s.sec, DictGet(d, "children", <<>>))

add_child_section_from_dict(db, self, d) ==
    ChildFromDict(append_child(db, self, DictGet(d, "label", Empty),
                               DictGet(d, "slug", Empty)), d)

\* for c in d.get('children', []): s.add_child_section_from_dict(c)
AddChildren(r, s, ds) ==
    IF r.exc # "" THEN r
    ELSE IF ds = <<>> THEN Result(r.db)
    ELSE AddChildren(add_child_section_from_dict(r.db, s, Head(ds)), s, Tail(ds))

\* return s
ReturnSection(r, s) == IF r.exc # "" THEN r ELSE [Result(r.db) EXCEPT !.sec = s]

\* the two loops of add_section_from_dict, on the root s.sec just added
SectionFromDict(s, d) ==
    IF s.exc # "" THEN s
    ELSE ReturnSection(
            AddChildren(AddPageblocks(Result(s.db), s.sec, DictGet(d, "pageblocks", <<>>)),
                        s.sec, DictGet(d, "children", <<>>)),
            s.sec)

add_section_from_dict(db, h, d) == SectionFromDict(add_root(db, S_Root, Empty, h), d)

\* for s in d.get('sections', []): h.add_section_from_dict(s)
RECURSIVE AddSections(_, _, _)
AddSections(r, h, ds) ==
    IF r.exc # "" THEN r
    ELSE IF ds = <<>> THEN Result(r.db)
    ELSE AddSections(add_section_from_dict(r.db, h, Head(ds)), h, Tail(ds))

\* hier is the hierarchy created, also when a section of the dictionary raised
WithHier(r, h) == [r EXCEPT !.hier = h]

\* the loop of from_dict, on the hierarchy h.hier just created
HierarchyFromDict(h, d) ==
    IF h.exc # "" THEN h
    ELSE WithHier(AddSections(Result(h.db), h.hier, DictGet(d, "sections", <<>>)), h.hier)

from_dict(db, d) ==
    HierarchyFromDict(Hierarchy_create(db, DictGet(d, "name", Empty),
                                       DictGet(d, "base_url", Slash)), d)

\* Hierarchy.from_dict(h.as_dict()), then as_dict() of the hierarchy made: flag tells
\* whether the two dictionaries are equal
SameDict(again, exported) ==
    IF again.exc # "" THEN again
    ELSE [again EXCEPT !.flag = (again.val = exported.val)]

ExportImported(imported, exported) ==
    IF imported.exc # "" THEN imported
    ELSE SameDict(WithHier(Hierarchy_as_dict(imported.db, imported.hier), imported.hier),
                  exported)

ImportExported(exported) ==
    IF exported.exc # "" THEN exported
    ELSE ExportImported(from_dict(exported.db, exported.val), exported)

RoundTrip(db, h) == ImportExported(Hierarchy_as_dict(db, h))

(***************************************************************************)
(* UserLocation.  Users are numbered from 1; 0 is the AnonymousUser, which *)
(* is no row of the User table: the ORM raises TypeError when it is given  *)
(* as the value of the user foreign key.                                   *)
(***************************************************************************)
AnonymousUser == 0
is_anonymous(user) == user = AnonymousUser

\* the rows of UserLocation.objects.filter(user=user, hierarchy=h), and how many
UserLocationRows(db, user, h) ==
    {row \in BagToSet(db.userlocations) : row.user = user /\ row.hierarchy = h}

UserLocationCount(db, user, h) ==
    LET rows == UserLocationRows(db, user, h)
        RECURSIVE Sum(_)
        Sum(R) == IF R = {} THEN 0
                  ELSE LET x == CHOOSE y \in R : TRUE
                       IN CopiesIn(x, db.userlocations) + Sum(R \ {x})
    IN Sum(rows)

\* UserLocation.objects.create(user=user, hierarchy=self), without the lookup
UserLocation_create(db, user, h) ==
    LET row == [user |-> user, hierarchy |-> h, path |-> Slash]
    IN IF is_anonymous(user) THEN Raise(db, "TypeError")
       ELSE [Result([db EXCEPT !.userlocations = @ (+) SetToBag({row})])
                EXCEPT !.val = row]

\* UserLocation.objects.get_or_create(user=user, hierarchy=self): val is the row
UserLocation_get_or_create(db, user, h) ==
    LET found == UserLocationRows(db, user, h)
        row == [user |-> user, hierarchy |-> h, path |-> Slash]
    IN IF is_anonymous(user) THEN Raise(db, "TypeError")
       ELSE IF found = {}
       THEN [Result([db EXCEPT !.userlocations = @ (+) SetToBag({row})])
                EXCEPT !.val = row]
       ELSE IF UserLocationCount(db, user, h) > 1
       THEN Raise(db, "MultipleObjectsReturned")
       ELSE [Result(db) EXCEPT !.val = CHOOSE x \in found : TRUE]

get_user_location(db, h, user) ==
    IF is_anonymous(user) THEN [Result(db) EXCEPT !.str = Slash]
    ELSE LET ul == UserLocation_get_or_create(db, user, h)
         IN IF ul.exc # "" THEN ul
            ELSE [Result(ul.db) EXCEPT !.str = ul.val.path]

get_user_section(db, h, user) ==
    LET loc == get_user_location(db, h, user)
    IN IF loc.exc # "" THEN loc
       ELSE find_section_from_path(loc.db, h, SliceFrom(loc.str, 1))

\* ul.path = path; ul.save()
user_visit(db, h, user, section) ==
    LET path == get_absolute_url(db, section)
        ul == UserLocation_get_or_create(db, user, h)
    IN IF ul.exc # "" THEN ul
       ELSE Result([ul.db EXCEPT !.userlocations =
                       (@ (-) SetToBag({ul.val})) (+) SetToBag({[ul.val EXCEPT !.path = path]})])

(***************************************************************************)
(* UserPageVisit.  The model declares no unique_together, so the table     *)
(* takes any number of rows for one (user, section).  first_visit and      *)
(* last_visit are left out: nothing here reads them.                       *)
(*                                                                         *)
(* Section.user_pagevisit is three statements against the database: the    *)
(* SELECT of get_or_create, its INSERT when the SELECT found no row, and   *)
(* the UPDATE of upv.save().  In autocommit mode each is its own           *)
(* transaction, so the statements of two requests interleave freely.       *)
(***************************************************************************)
S_incomplete == "incomplete"

\* the ids of UserPageVisit.objects.filter(section=self, user=user)
UserPageVisitIds(db, s, user) ==
    {i \in 1..Len(db.userpagevisits) :
        db.userpagevisits[i].section = s /\ db.userpagevisits[i].user = user}

\* the lookup of get_or_create: self.get(section=self, user=user); val is the row's id
UserPageVisit_get(db, s, user) ==
    IF is_anonymous(user) THEN Raise(db, "TypeError")
    ELSE IF UserPageVisitIds(db, s, user) = {} THEN Raise(db, "DoesNotExist")
    ELSE IF Cardinality(UserPageVisitIds(db, s, user)) > 1
    THEN Raise(db, "MultipleObjectsReturned")
    ELSE [Result(db) EXCEPT !.val = CHOOSE i \in UserPageVisitIds(db, s, user) : TRUE]

\* the create of get_or_create, after DoesNotExist: val is the new row's id
UserPageVisit_create(db, s, user) ==
    [Result([db EXCEPT !.userpagevisits =
                Append(@, [user |-> user, section |-> s, status |-> S_incomplete])])
        EXCEPT !.val = Len(db.userpagevisits) + 1]

\* upv.status = status; upv.save(): the UPDATE of the row with upv's primary key
UserPageVisit_save(db, upv, status) ==
    Result([db EXCEPT !.userpagevisits[upv].status = status])

\* a request that is in no user_pagevisit call
Idle == [pc |-> "idle", self |-> 0, user |-> 0, status |-> "", upv |-> 0]

RequestIds == 1..MaxRequests

\* Section.get_uservisit: r[0] of an unordered queryset is whichever row the database
\* lists first; flag tells whether a row was returned, val is its id
get_uservisit_rows(db, s, user) ==
    IF is_anonymous(user) THEN {Raise(db, "TypeError")}
    ELSE IF UserPageVisitIds(db, s, user) = {} THEN {Result(db)}
    ELSE {[Result(db) EXCEPT !.flag = TRUE, !.val = i] : i \in UserPageVisitIds(db, s, user)}

(***************************************************************************)
(* Inputs.                                                                 *)
(***************************************************************************)
S_A == <<"A">>
S_a == <<"a">>
S_b == <<"b">>
S_Bang == <<"!">>
S_x == <<"x">>

Users == {AnonymousUser, 1, 2}
Statuses == {S_incomplete, "complete"}

\* (label, slug) given to append_child: slug '' is the default
ChildArgs == {<<S_Root, Empty>>, <<S_A, Empty>>, <<S_A, S_b>>, <<S_Bang, Empty>>}

LeafDict == [label |-> S_A, slug |-> S_a]
NodeDict == [label |-> S_A, slug |-> Empty, pageblocks |-> <<>>,
             children |-> <<[label |-> <<"B">>, slug |-> S_b, pageblocks |-> <<>>,
                             children |-> <<>>]>>]
SectionDicts == {LeafDict, NodeDict}

CourseDict == [name |-> <<"c">>, base_url |-> <<"/", "c", "/">>,
               sections |-> <<[label |-> S_Root, slug |-> Empty, pageblocks |-> <<>>,
                               children |-> <<LeafDict>>]>>]
BareDict == [name |-> <<"e">>]
MainDict == [name |-> <<"m">>, base_url |-> Slash,
             sections |-> <<[label |-> S_Root, slug |-> Empty, pageblocks |-> <<>>,
                             children |-> <<LeafDict>>]>>]
HierarchyDicts == {CourseDict, BareDict}
LocDicts == {CourseDict, MainDict}

Paths == {Empty, Slash, S_a, S_a \o Slash, S_a \o Slash \o S_b, S_a \o Slash \o Slash}

\* request payloads: key -> list of values
Key(id, field) == S_pageblock \o <<"-">> \o FormatD(id) \o <<"-">> \o field
Requests ==
    { (Key(1, S_a) :> <<S_x>>) @@ (Key(10, S_a) :> <<S_x, S_x>>)
        @@ (Key(2, Empty) :> <<S_b>>) @@ (<<"c", "s", "r", "f">> :> <<S_x>>),
      (Key(10, S_b) :> <<S_x>>) @@ (Key(1, S_b \o <<"-">> \o S_a) :> <<>>) }

(***************************************************************************)
(* Actions: one call of a method each.                                     *)
(***************************************************************************)
Init ==
    /\ hierarchies = <<>>
    /\ sections = <<>>
    /\ pageblocks = {}
    /\ pageblock_seq = 0
    /\ userlocations = EmptyBag
    /\ userpagevisits = <<>>
    /\ inflight = [q \in RequestIds |-> Idle]
    /\ submitted = <<>>
    /\ ret = NoCall

Within(r, maxH, maxS) ==
    /\ Len(r.db.hierarchies) <= maxH
    /\ Len(r.db.sections) <= maxS

GetHierarchy(names, maxH) ==
    \E name \in names :
        LET r == get_hierarchy(DB, name)
        IN /\ Within(r, maxH, Len(sections))
           /\ Commit(r)
           /\ ret' = [Called("get_hierarchy", 0, r) EXCEPT !.arg = name]
           /\ submitted' = <<>>

FromDict(dicts, maxH, maxS) ==
    \E d \in dicts :
        LET r == from_dict(DB, d)
        IN /\ Within(r, maxH, maxS)
           /\ Commit(r)
           /\ ret' = Called("from_dict", 0, r)
           /\ submitted' = <<>>

GetRoot(maxS) ==
    \E h \in HierarchyIds(DB) :
        LET r == get_root(DB, h)
        IN /\ Within(r, Len(hierarchies), maxS)
           /\ Commit(r)
           /\ ret' = Called("get_root", h, r)
           /\ submitted' = <<>>

AppendChild(args, maxS) ==
    \E s \in SectionIds(DB), a \in args :
        LET r == append_child(DB, s, a[1], a[2])
        IN /\ Within(r, Len(hierarchies), maxS)
           /\ Commit(r)
           /\ ret' = Called("append_child", s, r)
           /\ submitted' = <<>>

AddChildSectionFromDict(maxS) ==
    \E s \in SectionIds(DB), d \in SectionDicts :
        LET r == add_child_section_from_dict(DB, s, d)
        IN /\ Within(r, Len(hierarchies), maxS)
           /\ Commit(r)
           /\ ret' = Called("add_child_section_from_dict", s, r)
           /\ submitted' = <<>>

AddSectionFromDict(maxS) ==
    \E h \in HierarchyIds(DB), d \in SectionDicts :
        LET r == add_section_from_dict(DB, h, d)
        IN /\ Within(r, Len(hierarchies), maxS)
           /\ Commit(r)
           /\ ret' = Called("add_section_from_dict", h, r)
           /\ submitted' = <<>>

GetSectionFromPath(maxS) ==
    \E h \in HierarchyIds(DB), path \in Paths :
        LET r == get_section_from_path(DB, h, path)
        IN /\ Within(r, Len(hierarchies), maxS)
           /\ Commit(r)
           /\ ret' = [Called("get_section_from_path", h, r) EXCEPT !.arg = path]
           /\ submitted' = <<>>

AppendPageblock(classes, maxSeq, maxLive) ==
    \E s \in SectionIds(DB), c \in classes :
        LET r == append_pageblock(DB, s, [label |-> S_x, content_object |-> c])
        IN /\ r.db.pageblock_seq <= maxSeq
           /\ Cardinality(r.db.pageblocks) <= maxLive
           /\ Commit(r)
           /\ ret' = [Called("append_pageblock", s, r) EXCEPT !.on = r.db.pageblock_seq]
           /\ submitted' = <<>>

DeletePageblock ==
    \E p \in pageblocks :
        LET r == PageBlock_delete(DB, p)
        IN /\ Commit(r)
           /\ ret' = [Called("PageBlock.delete", p.section, r) EXCEPT !.on = p.id]
           /\ submitted' = <<>>

Submit ==
    \E s \in SectionIds(DB), request_data \in Requests, user \in Users \ {AnonymousUser} :
        LET r == submit(DB, s, request_data, user)
        IN /\ UNCHANGED <<hierarchies, sections, pageblocks, pageblock_seq, userlocations,
                        userpagevisits, inflight>>
           /\ submitted' = r.calls
           /\ ret' = [NoCall EXCEPT !.op = "submit", !.self = s, !.user = user,
                                    !.flag = r.proceed,
                                    !.data = request_data]

GetUserLocation ==
    \E h \in HierarchyIds(DB), user \in Users :
        LET r == get_user_location(DB, h, user)
        IN /\ Commit(r)
           /\ ret' = [Called("get_user_location", h, r) EXCEPT !.user = user]
           /\ submitted' = <<>>

GetUserSection ==
    \E h \in HierarchyIds(DB), user \in Users :
        LET r == get_user_section(DB, h, user)
        IN /\ Commit(r)
           /\ ret' = [Called("get_user_section", h, r) EXCEPT !.user = user]
           /\ submitted' = <<>>

UserVisit ==
    \E h \in HierarchyIds(DB), user \in Users, section \in SectionIds(DB) :
        LET r == user_visit(DB, h, user, section)
        IN /\ Commit(r)
           /\ ret' = [Called("user_visit", h, r) EXCEPT !.user = user, !.on = section]
           /\ submitted' = <<>>

ExportImport(maxH, maxS) ==
    \E h \in HierarchyIds(DB) :
        LET r == RoundTrip(DB, h)
        IN /\ Within(r, maxH, maxS)
           /\ Commit(r)
           /\ ret' = [Called("from_dict(as_dict)", h, r) EXCEPT
                        !.on = Cardinality(pageblocks)]
           /\ submitted' = <<>>

\* Section.user_pagevisit, first statement: the SELECT of get_or_create.  DoesNotExist is
\* caught inside get_or_create, which goes on to create; any other exception ends the call
PagevisitGet ==
    \E q \in RequestIds, s \in SectionIds(DB), user \in Users, status \in Statuses :
        LET r == UserPageVisit_get(DB, s, user)
            call == [Idle EXCEPT !.self = s, !.user = user, !.status = status]
        IN /\ inflight[q].pc = "idle"
           /\ Tables(r)
           /\ inflight' = [inflight EXCEPT ![q] =
                    IF r.exc = "DoesNotExist" THEN [call EXCEPT !.pc = "create"]
                    ELSE IF r.exc = "" THEN [call EXCEPT !.pc = "save", !.upv = r.val]
                    ELSE Idle]
           /\ ret' = [NoCall EXCEPT !.op = "user_pagevisit: get", !.self = s,
                                    !.user = user, !.on = q, !.arg = status,
                                    !.exc = IF r.exc = "DoesNotExist" THEN "" ELSE r.exc]
           /\ submitted' = <<>>

\* second statement: the INSERT of get_or_create
PagevisitCreate ==
    \E q \in RequestIds :
        LET c == inflight[q]
            r == UserPageVisit_create(DB, c.self, c.user)
        IN /\ c.pc = "create"
           /\ Tables(r)
           /\ inflight' = [inflight EXCEPT ![q] = [c EXCEPT !.pc = "save", !.upv = r.val]]
           /\ ret' = [NoCall EXCEPT !.op = "user_pagevisit: create", !.self = c.self,
                                    !.user = c.user, !.on = q, !.arg = c.status]
           /\ submitted' = <<>>

\* third statement: upv.status = status; upv.save().  The call returns
PagevisitSave ==
    \E q \in RequestIds :
        LET c == inflight[q]
            r == UserPageVisit_save(DB, c.upv, c.status)
        IN /\ c.pc = "save"
           /\ Tables(r)
           /\ inflight' = [inflight EXCEPT ![q] = Idle]
           /\ ret' = [NoCall EXCEPT !.op = "user_pagevisit: save", !.self = c.self,
                                    !.user = c.user, !.on = q, !.arg = c.status]
           /\ submitted' = <<>>

GetUserVisit ==
    \E s \in SectionIds(DB), user \in Users :
        \E r \in get_uservisit_rows(DB, s, user) :
            /\ Commit(r)
            /\ ret' = [Called("get_uservisit", s, r) EXCEPT
                         !.user = user, !.on = IF r.flag THEN r.val ELSE 0]
            /\ submitted' = <<>>

(***************************************************************************)
(* Specifications.  Each starts from the empty database and is closed      *)
(* under the calls its claims are about, plus the calls that build what    *)
(* those need.                                                             *)
(***************************************************************************)
MainNames == {<<"m">>}

\* the tree: roots, children, path lookup
NextTree ==
    \/ GetHierarchy(MainNames, MaxHierarchies)
    \/ FromDict(HierarchyDicts, MaxHierarchies, MaxSections)
    \/ GetRoot(MaxSections)
    \/ AppendChild(ChildArgs, MaxSections)
    \/ AddChildSectionFromDict(MaxSections)
    \/ AddSectionFromDict(MaxSections)

SpecTree == Init /\ [][NextTree]_vars

\* one hierarchy: its tree, and path lookup
PathArgs == {<<S_Root, Empty>>, <<S_A, Empty>>, <<S_A, S_b>>}

NextPath ==
    \/ GetHierarchy(MainNames, MaxHierarchies)
    \/ GetRoot(MaxPathSections)
    \/ AppendChild(PathArgs, MaxPathSections)
    \/ GetSectionFromPath(MaxPathSections)

SpecPath == Init /\ [][NextPath]_vars

\* hierarchies of several base urls and their trees
NextUrl ==
    \/ FromDict(HierarchyDicts, MaxUrlHierarchies, MaxUrlSections)
    \/ GetRoot(MaxUrlSections)
    \/ AppendChild(ChildArgs, MaxUrlSections)

SpecUrl == Init /\ [][NextUrl]_vars

\* pageblocks of a few sections: append and delete
NextOrd ==
    \/ GetHierarchy(MainNames, MaxHierarchies)
    \/ GetRoot(MaxOrdSections)
    \/ AppendChild({<<S_A, Empty>>}, MaxOrdSections)
    \/ AppendPageblock({"TextBlock", "Quiz"}, MaxOrdBlocks, MaxOrdBlocks)
    \/ DeletePageblock

SpecOrd == Init /\ [][NextOrd]_vars

\* one section, its pageblocks of every class, and submit
NextSubmit ==
    \/ GetHierarchy(MainNames, MaxHierarchies)
    \/ GetRoot(MaxSections)
    \/ AppendPageblock(BlockClasses, MaxPageBlockId, MaxLiveBlocks)
    \/ DeletePageblock
    \/ Submit

SpecSubmit == Init /\ [][NextSubmit]_vars

\* user locations over imported hierarchies
NextLoc ==
    \/ FromDict(LocDicts, MaxLocHierarchies, 2 * MaxLocHierarchies)
    \/ GetUserLocation
    \/ GetUserSection
    \/ UserVisit

SpecLoc == Init /\ [][NextLoc]_vars

\* export and import
NextDict ==
    \/ GetHierarchy(MainNames, MaxDictHierarchies)
    \/ GetRoot(MaxDictSections)
    \/ AppendChild({<<S_A, Empty>>, <<S_Bang, S_b>>}, MaxDictSections)
    \/ AppendPageblock({"Quiz"}, MaxDictBlocks, MaxDictBlocks)
    \/ ExportImport(MaxDictHierarchies, MaxDictSections)

SpecDict == Init /\ [][NextDict]_vars

\* page visits recorded by concurrent requests
NextVisit ==
    \/ GetHierarchy(MainNames, MaxHierarchies)
    \/ GetRoot(MaxVisitSections)
    \/ PagevisitGet
    \/ PagevisitCreate
    \/ PagevisitSave
    \/ GetUserVisit

SpecVisit == Init /\ [][NextVisit]_vars

Next ==
    \/ NextTree \/ NextPath \/ NextUrl \/ NextOrd \/ NextSubmit \/ NextLoc \/ NextDict
    \/ NextVisit
Spec == Init /\ [][Next]_vars

(***************************************************************************)
(* Claims.                                                                 *)
(***************************************************************************)
Ordinalities(s) == {p.ordinality : p \in PageblockSet(DB, s)}

OrdinalitiesContiguous ==
    \A s \in SectionIds(DB) :
        /\ Ordinalities(s) = 1..Cardinality(PageblockSet(DB, s))
        /\ \A p, q \in PageblockSet(DB, s) : p.ordinality = q.ordinality => p = q

\* a block that a step adds gets the number of blocks its section had, plus one
AppendGivesNext ==
    \A p \in pageblocks' :
        p.id \notin {q.id : q \in pageblocks}
            => p.ordinality = Cardinality(PageblockSet(DB, p.section)) + 1

\* the blocks a step keeps stay in the order they were in
KeepsRelativeOrder ==
    \A p, q \in pageblocks : \A p2, q2 \in pageblocks' :
        (/\ p2.id = p.id /\ q2.id = q.id
         /\ p.section = q.section
         /\ p.ordinality < q.ordinality)
            => (p2.section = q2.section /\ p2.ordinality < q2.ordinality)

\* C1: through any sequence of append_pageblock and PageBlock.delete, the ordinalities
\* of each section's pageblocks are exactly 1..N, without gap or duplicate; the
\* appended block gets N+1, and delete renumbers keeping the relative order.
C1_OrdinalityContiguous ==
    /\ []OrdinalitiesContiguous
    /\ [][AppendGivesNext /\ KeepsRelativeOrder]_vars

\* a block was deleted from before another of its section, which was renumbered, while
\* another section has a block too
C1_Witness ==
    /\ ret.op = "PageBlock.delete"
    /\ \E p \in pageblocks :
          p.section = ret.self /\ ret.on < p.id /\ p.ordinality = 1
    /\ \E p \in pageblocks : p.section # ret.self

Roots(h) == {s \in SectionIds(DB) : is_root(DB, s) /\ sections[s].hierarchy = h}

\* C2: through any sequence of get_root, append_child, add_child_section_from_dict,
\* add_section_from_dict and from_dict, each hierarchy has at most one root, the root
\* has label "Root" and an empty slug, and get_root returns it.
C2_OneRootPerHierarchy ==
    /\ \A h \in HierarchyIds(DB) : Cardinality(Roots(h)) <= 1
    /\ \A h \in HierarchyIds(DB) : \A s \in Roots(h) :
          sections[s].label = S_Root /\ sections[s].slug = Empty
    /\ ret.op = "get_root" => (ret.exc = "" /\ ret.sec \in Roots(ret.self))

\* C3: through any sequence of get_user_location and user_visit there is at most one
\* UserLocation per (user, hierarchy); no call deletes one; get_user_location of an
\* anonymous user returns "/" and creates nothing.
AtMostOneUserLocation ==
    \A h \in HierarchyIds(DB), user \in Users : UserLocationCount(DB, user, h) <= 1

NoUserLocationDeleted ==
    \A h \in HierarchyIds(DB), user \in Users :
        UserLocationCount(DB', user, h) >= UserLocationCount(DB, user, h)

AnonymousLocation ==
    (ret'.op = "get_user_location" /\ ret'.user = AnonymousUser)
        => (ret'.exc = "" /\ ret'.str = Slash /\ userlocations' = userlocations)

C3_OneUserLocation ==
    /\ []AtMostOneUserLocation
    /\ [][NoUserLocationDeleted /\ AnonymousLocation]_vars

\* two users have a location in one hierarchy, and the one who just visited a section
\* already had a row, which now holds another path than the default
C3_Witness ==
    /\ ret.op = "user_visit" /\ ret.exc = ""
    /\ \E row \in BagToSet(userlocations) :
          row.user = ret.user /\ row.hierarchy = ret.self /\ row.path # Slash
    /\ \E row \in BagToSet(userlocations) :
          row.user # ret.user /\ row.hierarchy = ret.self

\* the pageblocks of a section that need submit, and those of them that define
\* redirect_to_self_on_submit
NeedSubmit(s) ==
    {p \in PageblockSet(DB, s) : has_needs_submit(p.block) /\ needs_submit(p.block)}

Redirecting(s) == {p \in NeedSubmit(s) : has_redirect_to_self_on_submit(p.block)}

LastByOrdinality(P) == CHOOSE p \in P : \A q \in P : q.ordinality <= p.ordinality

\* C4: Section.submit returns True when no pageblock of the section both needs submit
\* and defines redirect_to_self_on_submit; otherwise the negation of
\* redirect_to_self_on_submit() of the last such pageblock in ordinality order.
C4_SubmitProceed ==
    ret.op = "submit" =>
        ret.flag = IF Redirecting(ret.self) = {} THEN TRUE
                   ELSE ~redirect_to_self_on_submit(LastByOrdinality(Redirecting(ret.self)).block)

\* two submittable blocks that answer differently: the earlier one asks to stay, the
\* last one does not, and submit says proceed
C4_Witness ==
    /\ ret.op = "submit" /\ ret.flag
    /\ \E p, q \in Redirecting(ret.self) :
          /\ p.ordinality < q.ordinality
          /\ redirect_to_self_on_submit(p.block)
          /\ ~redirect_to_self_on_submit(q.block)

\* "pageblock-<id>-"
ClaimPrefix(id) == S_pageblock \o <<"-">> \o FormatD(id) \o <<"-">>

BlockOf(id) == CHOOSE p \in pageblocks : p.id = id

\* C5: Section.submit calls submit(user, data) once for each pageblock whose block
\* needs submit, in ordinality order, and for no other; the data of pageblock p holds
\* exactly the request keys that start with "pageblock-<p.id>-", the prefix removed, so
\* no request key reaches two blocks.
C5_SubmitDispatch ==
    ret.op = "submit" =>
        /\ Len(submitted) = Cardinality(NeedSubmit(ret.self))
        /\ \A i \in 1..Len(submitted) :
              /\ submitted[i].user = ret.user
              /\ \E p \in NeedSubmit(ret.self) : p.id = submitted[i].pb
        /\ \A i, j \in 1..Len(submitted) :
              i < j => BlockOf(submitted[i].pb).ordinality < BlockOf(submitted[j].pb).ordinality
        /\ \A i \in 1..Len(submitted) :
              LET prefix == ClaimPrefix(submitted[i].pb)
                  n == Len(prefix)
              IN /\ \A f \in DOMAIN submitted[i].data : (prefix \o f) \in DOMAIN ret.data
                 /\ \A k \in DOMAIN ret.data :
                       (Len(k) >= n /\ SubSeq(k, 1, n) = prefix)
                           => SubSeq(k, n + 1, Len(k)) \in DOMAIN submitted[i].data
        /\ \A k \in DOMAIN ret.data :
              Cardinality({i \in 1..Len(submitted) :
                             \E f \in DOMAIN submitted[i].data :
                                 ClaimPrefix(submitted[i].pb) \o f = k}) <= 1

\* pageblocks 1 and 10 of one section both need submit, and each got the field
\* addressed to it; a block that needs no submit was not called
C5_Witness ==
    /\ ret.op = "submit"
    /\ Len(submitted) = 2
    /\ submitted[1].pb = 1 /\ submitted[2].pb = 10
    /\ DOMAIN submitted[1].data = {S_a}
    /\ DOMAIN submitted[2].data = {S_a}

\* the slugs a path names: the pieces between its slashes, one final slash set aside
SlugSequence(path) ==
    LET p == IF Len(path) > 0 /\ path[Len(path)] = "/" THEN SubSeq(path, 1, Len(path) - 1)
             ELSE path
    IN IF p = <<>> THEN <<>> ELSE split(p)

\* the sections a chain of children with these slugs leads to, from any of `from`
RECURSIVE Reached(_, _)
Reached(from, slugs) ==
    IF slugs = <<>> THEN from
    ELSE Reached({c \in SectionIds(DB) :
                    sections[c].parent \in from /\ sections[c].slug = Head(slugs)},
                 Tail(slugs))

\* what get_section_from_path gives: the exception, or the section
Lookup(h, path) ==
    LET r == get_section_from_path(DB, h, path)
    IN <<r.exc, r.sec>>

\* C6: get_section_from_path raises Http404 exactly when the path's slugs match no
\* chain of children from the hierarchy's root; otherwise it returns the section the
\* slugs lead to, the root for "" and "/"; a trailing "/" never changes the result
\* (read as: a "/" added to a path that does not end in one).
C6_PathLookup ==
    /\ ret.op = "get_section_from_path" =>
          LET found == Reached(Roots(ret.self), SlugSequence(ret.arg))
          IN /\ (ret.exc = "Http404") <=> (found = {})
             /\ found # {} => (ret.exc = "" /\ ret.sec \in found)
    /\ \A h \in HierarchyIds(DB), path \in Paths :
          ~endswith(path, Slash) => Lookup(h, path) = Lookup(h, path \o Slash)

\* the non-root ancestors of s from the top down, then s itself (nothing for a root)
RECURSIVE TopDown(_)
TopDown(s) == IF sections[s].parent = 0 THEN <<>> ELSE Append(TopDown(sections[s].parent), s)

RECURSIVE JoinSlugs(_)
JoinSlugs(chain) ==
    IF chain = <<>> THEN <<>>
    ELSE sections[Head(chain)].slug \o <<"/">> \o JoinSlugs(Tail(chain))

ClaimUrl(s) == hierarchies[sections[s].hierarchy].base_url \o JoinSlugs(TopDown(s))

\* C7: get_absolute_url() of a section is its hierarchy's base_url followed by
\* slug + "/" of each non-root ancestor from the top down and of the section itself
\* (base_url for a root); get_path() is that URL without its first character.
C7_AbsoluteUrl ==
    \A s \in SectionIds(DB) :
        /\ get_absolute_url(DB, s) = ClaimUrl(s)
        /\ get_path(DB, s) = IF ClaimUrl(s) = <<>> THEN <<>> ELSE Tail(ClaimUrl(s))

\* a grandchild of the root of a hierarchy at "/c/", a child with an empty slug, and
\* a root
C7_Witness ==
    /\ \E s \in SectionIds(DB) :
          /\ get_absolute_url(DB, s) = <<"/", "c", "/", "a", "/", "b", "/">>
          /\ get_path(DB, s) = <<"c", "/", "a", "/", "b", "/">>
    /\ \E s \in SectionIds(DB) :
          /\ sections[s].parent # 0 /\ sections[s].slug = Empty
          /\ get_absolute_url(DB, s) = <<"/", "c", "/", "/">>
    /\ \E s \in SectionIds(DB) :
          sections[s].parent = 0 /\ get_absolute_url(DB, s) = <<"/", "c", "/">>

\* the depth-first traversal of the tree s is in
OwnTraversal(s) == Preorder(DB, Section_get_root(DB, s))

Position(list, s) == CHOOSE i \in 1..Len(list) : list[i] = s

ClaimNext(s) ==
    LET list == OwnTraversal(s)
        i == Position(list, s)
    IN IF i < Len(list) THEN list[i + 1] ELSE 0

ClaimPrevious(s) ==
    LET list == OwnTraversal(s)
        i == Position(list, s)
    IN IF i > 1 /\ sections[list[i - 1]].parent # 0 THEN list[i - 1] ELSE 0

\* C8: get_next(s) is the section after s in the depth-first traversal of s's own tree,
\* None when s is last; get_previous(s) the one before, None when that is the root or s
\* is the root; neither is a section of another hierarchy, get_previous never a root.
C8_Navigation ==
    \A s \in SectionIds(DB) :
        LET n == get_next(DB, s)
            p == get_previous(DB, s)
        IN /\ n = ClaimNext(s)
           /\ p = ClaimPrevious(s)
           /\ n # 0 => sections[n].hierarchy = sections[s].hierarchy
           /\ p # 0 => (sections[p].hierarchy = sections[s].hierarchy
                        /\ sections[p].parent # 0)

\* C9: after user_visit(user, s) of a user who is not anonymous, for a section of any
\* hierarchy, get_user_location(user) is s.get_absolute_url() and get_user_section(user)
\* returns s.
C9_UserSection ==
    (ret.op = "user_visit" /\ ret.exc = "") =>
        LET loc == get_user_location(DB, ret.self, ret.user)
            sec == get_user_section(DB, ret.self, ret.user)
        IN /\ loc.exc = "" /\ loc.str = get_absolute_url(DB, ret.on)
           /\ sec.exc = "" /\ sec.sec = ret.on

\* C10: Hierarchy.from_dict(h.as_dict()) completes without error, and as_dict() of the
\* hierarchy it makes equals h.as_dict().
C10_ExportImport ==
    ret.op = "from_dict(as_dict)" => (ret.exc = "" /\ ret.flag)

AtMostOneUserPageVisit ==
    \A s \in SectionIds(DB), user \in Users :
        Cardinality(UserPageVisitIds(DB, s, user)) <= 1

\* after a user_pagevisit call saved, what is stored for its (user, section) is its status
LastSaveStored ==
    ret.op = "user_pagevisit: save" =>
        \A i \in UserPageVisitIds(DB, ret.self, ret.user) :
            userpagevisits[i].status = ret.arg

\* C11: in every reachable state there is at most one UserPageVisit row per
\* (user, section), also when the statements of two user_pagevisit calls for the same
\* user and section interleave between the lookup and the create of get_or_create; the
\* stored status is the status of the call that saved last.
C11_OneUserPageVisit == AtMostOneUserPageVisit /\ LastSaveStored

====
